---- MODULE Spec2Model ----
(***************************************************************************)
(* Model of the podcast-processor workflow: the Step Functions state       *)
(* machine built by StepFunctionsStack (TranscribeAudio, the wait/poll     *)
(* loop, ProcessTranscript, GenerateSummary, FormatOutput, the four Fail   *)
(* states and the 30 minute execution timeout) and the S3 trigger handler  *)
(* (S3EventBridgeFunction) that starts executions.                         *)
(*                                                                         *)
(* Time is counted in whole wait intervals (WaitSeconds): the Wait state   *)
(* takes exactly one unit, a Lambda task attempt one of the durations the  *)
(* answering environment lists (none: it ends within the unit it began in).*)
(***************************************************************************)
EXTENDS Integers, Sequences, FiniteSets, TLC

VARIABLES
  executions,       \* the executions of the state machine, in start order
  notifications,    \* the S3 event notifications, with their deliveries so far
  handlers,         \* the invocations of the S3 event bridge handler
  stateMachineArn,  \* process.env.STATE_MACHINE_ARN of the handler
  outputBucket,     \* the objects of the output bucket, by key
  bucketNotification,  \* the notification configuration of the input bucket
  requests          \* the custom resource requests NotificationFunction handled

vars ==
  <<executions, notifications, handlers, stateMachineArn, outputBucket,
    bucketNotification, requests>>

----------------------------------------------------------------------------
(* Bounds of the model *)

\* invocations of one task that are told apart (the count saturates here)
CallCap == 2
\* executions the Step Functions service is asked to hold
MaxExecs == 2
\* deliveries of one S3 notification (at-least-once delivery)
MaxDeliveries == 2
\* S3 event notifications
MaxEvents == 1
\* records in one S3 event
MaxRecords == 2
\* custom resource requests sent to NotificationFunction
MaxRequests == 2
\* segments in one raw transcript
MaxSegments == 2
\* characters in an episode title
MaxTitleLen == 2

----------------------------------------------------------------------------
(* Program constants *)

\* sfn.WaitTime.duration(cdk.Duration.seconds(30))
WaitSeconds == 30
\* timeout: cdk.Duration.minutes(30)
TimeoutMinutes == 30
\* retryOnServiceExceptions: true adds Retry{MaxAttempts: 6} for Lambda service errors
MaxAttempts == 6

\* timeout of BedrockTranscribeFunction, in seconds
TranscribeTimeoutSeconds == 60
\* timeout of BedrockStatusFunction, in seconds
StatusTimeoutSeconds == 30
\* timeout of TranscriptProcessor, in seconds
ProcessorTimeoutSeconds == 30
\* timeout of Summarizer, in minutes
SummarizerTimeoutMinutes == 5
\* timeout of Formatter, in seconds
FormatterTimeoutSeconds == 30

TimeoutUnits == (TimeoutMinutes * 60) \div WaitSeconds

Null == "null"

InputBucket == "input-bucket"

\* object keys: <<prefix, name>>
Keys == {<<"uploads/", "a.mp3">>, <<"uploads/", "b.mp3">>}

\* objects created outside the uploads/ prefix
OtherKeys == {<<"transcripts/", "a.json">>}

\* the ARN of PodcastProcessingStateMachine
StateMachineArn == "arn:PodcastProcessingStateMachine"

\* ARN of S3EventBridgeFunction, the LambdaArn property of the resource
LambdaArn == "arn:S3EventBridgeFunction"

\* event.RequestType of a custom resource request
RequestTypes == {"Create", "Update", "Delete"}

\* properties of BucketNotificationResource: Prefix is 'uploads/'
ResourceProperties ==
  [BucketName |-> InputBucket, LambdaArn |-> LambdaArn, Prefix |-> "uploads/"]

\* NotificationConfiguration: {}
NoNotification == {}

\* the LambdaFunctionConfigurations the handler writes on Create and Update
LambdaNotification(props) ==
  {[Events |-> "s3:ObjectCreated:*",
    LambdaFunctionArn |-> props.LambdaArn,
    prefix |-> IF "Prefix" \in DOMAIN props THEN props.Prefix ELSE ""]}

\* the configuration the deployed stack has written
NotificationOfStack == LambdaNotification(ResourceProperties)

\* job identifiers the transcription engine may assign
JobIds == {"job-1", "job-2"}

\* Status strings the status function may return
KnownStatuses == {"SUBMITTED", "RUNNING", "COMPLETED", "SUCCESS", "FAILED"}

UnknownStatuses == {"InProgress", "completed"}

StatusValues == KnownStatuses \cup UnknownStatuses

\* errors retried by retryOnServiceExceptions
RetryErrors ==
  {"Lambda.ClientExecutionTimeoutException", "Lambda.ServiceException",
   "Lambda.AWSLambdaException", "Lambda.SdkClientException"}

\* the Lambda tasks of the state machine
Tasks ==
  {"TranscribeAudio", "CheckTranscriptionStatus", "ProcessTranscript",
   "GenerateSummary", "FormatOutput"}

\* tasks outside the poll loop, whose invocations are counted
CountedTasks == Tasks \ {"CheckTranscriptionStatus"}

FailStates ==
  {"TranscriptionFailed", "ProcessingFailed", "SummarizationFailed", "FormattingFailed"}

TerminalStates == FailStates \cup {"WorkflowComplete", "TimedOut"}

\* the longest one invocation of the task's function lasts: its Lambda
\* timeout, in wait intervals
TaskUnits(task) ==
  CASE task = "TranscribeAudio" -> TranscribeTimeoutSeconds \div WaitSeconds
    [] task = "CheckTranscriptionStatus" -> StatusTimeoutSeconds \div WaitSeconds
    [] task = "ProcessTranscript" -> ProcessorTimeoutSeconds \div WaitSeconds
    [] task = "GenerateSummary" -> (SummarizerTimeoutMinutes * 60) \div WaitSeconds
    [] task = "FormatOutput" -> FormatterTimeoutSeconds \div WaitSeconds

\* errors raised by the function itself (not retried)
FunctionErrors(task) ==
  CASE task = "TranscribeAudio" -> {"SubmissionError"}
    [] task = "CheckTranscriptionStatus" -> {"PermanentPollError"}
    [] task = "ProcessTranscript" -> {"MalformedTranscriptError"}
    [] task = "GenerateSummary" -> {"GenerationError"}
    [] task = "FormatOutput" -> {"FormatError"}

----------------------------------------------------------------------------
(* The state machine definition *)

\* $.TranscriptionJob, $.TranscriptionStatus, ... : the resultPath of each task
ResultPath(task) ==
  CASE task = "TranscribeAudio" -> "TranscriptionJob"
    [] task = "CheckTranscriptionStatus" -> "TranscriptionStatus"
    [] task = "ProcessTranscript" -> "ProcessingResult"
    [] task = "GenerateSummary" -> "SummaryResult"
    [] task = "FormatOutput" -> "FormattingResult"

\* a chain that polls right after the submission, with no first wait
NextStateNoFirstWait(task) ==
  CASE task = "TranscribeAudio" -> "CheckTranscriptionStatus"
    [] task = "WaitForTranscription" -> "CheckTranscriptionStatus"
    [] task = "CheckTranscriptionStatus" -> "IsTranscriptionComplete"
    [] task = "ProcessTranscript" -> "GenerateSummary"
    [] task = "GenerateSummary" -> "FormatOutput"
    [] task = "FormatOutput" -> "WorkflowComplete"

\* a chain that leaves out generateSummary
NextStateSkipSummary(task) ==
  CASE task = "TranscribeAudio" -> "WaitForTranscription"
    [] task = "WaitForTranscription" -> "CheckTranscriptionStatus"
    [] task = "CheckTranscriptionStatus" -> "IsTranscriptionComplete"
    [] task = "ProcessTranscript" -> "FormatOutput"
    [] task = "GenerateSummary" -> "FormatOutput"
    [] task = "FormatOutput" -> "WorkflowComplete"

\* the state a state goes to when it succeeds (.next chains)
NextState(task) ==
  CASE task = "TranscribeAudio" -> "WaitForTranscription"
    [] task = "WaitForTranscription" -> "CheckTranscriptionStatus"
    [] task = "CheckTranscriptionStatus" -> "IsTranscriptionComplete"
    [] task = "ProcessTranscript" -> "GenerateSummary"
    [] task = "GenerateSummary" -> "FormatOutput"
    [] task = "FormatOutput" -> "WorkflowComplete"

\* a submission whose error is swallowed: the execution goes on to the loop
CatchSubmitIgnored(task) ==
  CASE task = "TranscribeAudio" -> "WaitForTranscription"
    [] task = "CheckTranscriptionStatus" -> "TranscriptionFailed"
    [] task = "ProcessTranscript" -> "ProcessingFailed"
    [] task = "GenerateSummary" -> "SummarizationFailed"
    [] task = "FormatOutput" -> "FormattingFailed"

\* a catch copied from the next stage: GenerateSummary fails into FormattingFailed
CatchCopied(task) ==
  CASE task = "TranscribeAudio" -> "TranscriptionFailed"
    [] task = "CheckTranscriptionStatus" -> "TranscriptionFailed"
    [] task = "ProcessTranscript" -> "ProcessingFailed"
    [] task = "GenerateSummary" -> "FormattingFailed"
    [] task = "FormatOutput" -> "FormattingFailed"

\* every task caught by the one failure state of the first stage
CatchShared(task) ==
  CASE task = "TranscribeAudio" -> "TranscriptionFailed"
    [] task = "CheckTranscriptionStatus" -> "TranscriptionFailed"
    [] task = "ProcessTranscript" -> "TranscriptionFailed"
    [] task = "GenerateSummary" -> "TranscriptionFailed"
    [] task = "FormatOutput" -> "TranscriptionFailed"

\* the state a task goes to when an error is caught (addCatch, States.ALL)
CatchTarget(task) ==
  CASE task = "TranscribeAudio" -> "TranscriptionFailed"
    [] task = "CheckTranscriptionStatus" -> "TranscriptionFailed"
    [] task = "ProcessTranscript" -> "ProcessingFailed"
    [] task = "GenerateSummary" -> "SummarizationFailed"
    [] task = "FormatOutput" -> "FormattingFailed"

\* a Choice without its FAILED rule
ChoiceWithoutFailed(status) ==
  IF status = "COMPLETED" \/ status = "SUCCESS" THEN "ProcessTranscript"
  ELSE "WaitForTranscription"

\* a Choice that names the running statuses and fails on anything else
ChoiceDefaultFails(status) ==
  IF status = "COMPLETED" \/ status = "SUCCESS" THEN "ProcessTranscript"
  ELSE IF status = "RUNNING" \/ status = "SUBMITTED" THEN "WaitForTranscription"
  ELSE "TranscriptionFailed"

\* Status strings that differ from the three the Choice names in case only
CaseVariants ==
  {"completed", "Completed", "success", "Success", "failed", "Failed"}

\* a Choice that compares the status without regard to case
ChoiceTargetAnyCase(status) ==
  IF status \in {"COMPLETED", "SUCCESS", "completed", "Completed", "success", "Success"}
    THEN "ProcessTranscript"
  ELSE IF status \in {"FAILED", "failed", "Failed"} THEN "TranscriptionFailed"
  ELSE "WaitForTranscription"

\* the Choice state IsTranscriptionComplete
ChoiceTarget(status) ==
  IF status = "COMPLETED" \/ status = "SUCCESS" THEN "ProcessTranscript"
  ELSE IF status = "FAILED" THEN "TranscriptionFailed"
  ELSE "WaitForTranscription"

\* a task built without retryOnServiceExceptions
NeverRetry(task, error, retryCount) == FALSE

\* a Retry rule that matches every error (States.ALL)
RetryEveryError(task, error, retryCount) == retryCount < MaxAttempts

\* a Retry rule that gives up after the first retry
RetryOnce(task, error, retryCount) ==
  error \in RetryErrors /\ retryCount < 1

\* the Retry rule of a task: only Lambda service errors, at most MaxAttempts times
ShouldRetry(task, error, retryCount) ==
  error \in RetryErrors /\ retryCount < MaxAttempts

\* a state machine built without its timeout
NeverExpired(elapsed, d) == FALSE

\* the execution timeout: a step that would end d units from now does not end
Expired(elapsed, d) == elapsed + d >= TimeoutUnits

\* the clock and the counters saturate
Advance(elapsed, d) ==
  IF elapsed + d >= TimeoutUnits THEN TimeoutUnits ELSE elapsed + d

Inc(n) == IF n > TimeoutUnits THEN n ELSE n + 1

\* the invocations of a task are counted up to CallCap
IncCall(n) == IF n >= CallCap THEN CallCap ELSE n + 1

NoError == [state |-> Null, error |-> Null, attempt |-> 0]

\* metadata and summary before the functions have produced them
NoMetadata == [originalFileName |-> <<>>]

NoSummary == [name |-> <<>>, body |-> ""]

EmptyPayload ==
  [TranscriptionJob |-> [JobId |-> Null],
   TranscriptionStatus |-> [Status |-> Null, OutputKey |-> Null],
   ProcessingResult |-> [transcript |-> <<>>, metadata |-> NoMetadata],
   SummaryResult |-> [summary |-> NoSummary, metadata |-> NoMetadata],
   FormattingResult |-> [outputKey |-> <<>>]]

\* the output bucket before anything is stored
EmptyBucket == [k \in {} |-> [title |-> <<>>, summary |-> "", source |-> <<>>]]

\* speaker labels and texts of the segments of a raw transcript
Speakers == {"A", "B"}

Texts == {"hi", "bye"}

\* a segment, with or without its speaker key and its text key
SegmentValues ==
  {[speaker |-> sp, text |-> t] : sp \in Speakers, t \in Texts}
    \cup {[text |-> t] : t \in Texts}
    \cup {[speaker |-> sp] : sp \in Speakers}

\* segment.get('speaker', 'Unknown')
SpeakerOf(segment) ==
  IF "speaker" \in DOMAIN segment THEN segment.speaker ELSE "Unknown"

\* segment.get('text', '')
TextOf(segment) ==
  IF "text" \in DOMAIN segment THEN segment.text ELSE ""

\* transcript_data.get('segments', []) of the raw transcripts a job may store
RawTranscripts ==
  UNION {[1 .. n -> SegmentValues] : n \in 0 .. MaxSegments}

\* the raw transcript of an ordinary job
OneTranscript == <<[speaker |-> "A", text |-> "hi"], [text |-> "bye"]>>

\* a segment loop that keeps only the segment it read last
LastSegmentOnly(segments) ==
  IF segments = <<>> THEN <<>>
  ELSE LET segment == segments[Len(segments)]
       IN  <<SpeakerOf(segment), ": ", TextOf(segment), "\n\n">>

\* the segment loop: full_transcript += f"{speaker}: {text}\n\n"
RECURSIVE FullTranscript(_)
FullTranscript(segments) ==
  IF segments = <<>> THEN <<>>
  ELSE LET segment == segments[Len(segments)]
       IN  FullTranscript(SubSeq(segments, 1, Len(segments) - 1))
             \o <<SpeakerOf(segment), ": ", TextOf(segment), "\n\n">>

\* the transcript processor: the transcript and its metadata
TranscriptProcessor(event, segments) ==
  [transcript |-> FullTranscript(segments),
   metadata |-> [originalFileName |-> event.originalFileName]]

\* characters of the episode titles of the model
TitleChars == {"a", "5", " ", "-", "/"}

\* the episode names a summary may carry; <<>>: no line "1) ..."
Titles ==
  UNION {[1 .. n -> TitleChars] : n \in 0 .. MaxTitleLen}

\* the text of section 3 of a summary; "": no such section
SummaryBody == "In this episode Billy and Nick discuss x"

\* characters re.sub(r'[^a-zA-Z0-9_-]', '_', ...) keeps
SafeChars ==
  {
   "a", "b", "c", "d", "e", "f", "g", "h", "i", "j", "k", "l", "m", "n",
   "o", "p", "q", "r", "s", "t", "u", "v", "w", "x", "y", "z", "A", "B",
   "C", "D", "E", "F", "G", "H", "I", "J", "K", "L", "M", "N", "O", "P",
   "Q", "R", "S", "T", "U", "V", "W", "X", "Y", "Z", "0", "1", "2", "3",
   "4", "5", "6", "7", "8", "9", "_", "-"
  }

\* a character class without the digits: [^a-zA-Z_-]
SafeNameNoDigits(episode_name) ==
  [c \in DOMAIN episode_name |->
     IF episode_name[c] \in SafeChars \ {"0", "1", "2", "3", "4", "5", "6", "7", "8", "9"}
       THEN episode_name[c] ELSE "_"]

\* a character class that lets the slash through: [^a-zA-Z0-9_/-]
SafeNameKeepsSlash(episode_name) ==
  [c \in DOMAIN episode_name |->
     IF episode_name[c] \in SafeChars \cup {"/"} THEN episode_name[c] ELSE "_"]

\* safe_name = re.sub(r'[^a-zA-Z0-9_-]', '_', episode_name)
SafeName(episode_name) ==
  [c \in DOMAIN episode_name |->
     IF episode_name[c] \in SafeChars THEN episode_name[c] ELSE "_"]

\* output_key = f"summaries/{safe_name}.md"
OutputKey(episode_name) == <<"summaries/", SafeName(episode_name), ".md">>

\* the title extract_episode_name falls back to
UntitledEpisode ==
  <<"U", "n", "t", "i", "t", "l", "e", "d", " ", "E", "p", "i", "s", "o", "d", "e">>

\* an extraction with no fallback: the empty name
ExtractEpisodeNameOrEmpty(summary) == summary.name

\* extract_episode_name: the text of the line "1) ...", or the fallback
ExtractEpisodeName(summary) ==
  IF summary.name = <<>> THEN UntitledEpisode ELSE summary.name

\* extract_episode_summary: the text of section 3, or the fallback
ExtractEpisodeSummary(summary) ==
  IF summary.body = "" THEN "No summary available." ELSE summary.body

\* format_markdown: the title line, the "Episode Summary" section and the
\* "Source:" line of the document
FormatMarkdown(episode_name, episode_summary, metadata) ==
  [title |-> episode_name,
   summary |-> episode_summary,
   source |-> metadata.originalFileName]

\* s3.put_object(Bucket=OUTPUT_BUCKET, Key=key, Body=body)
PutObject(bucket, key, body) ==
  [k \in DOMAIN bucket \cup {key} |-> IF k = key THEN body ELSE bucket[k]]

\* a ProcessTranscript that takes the file name from the job's output key
TaskInputNameFromOutput(e, task) ==
  CASE task = "TranscribeAudio" ->
         [ModelId |-> "amazon.titan-tg1-large",
          bucket |-> e.input.bucket,
          key |-> e.input.key]
    [] task = "CheckTranscriptionStatus" ->
         [JobId |-> e.payload.TranscriptionJob.JobId]
    [] task = "ProcessTranscript" ->
         [TranscriptionStatus |->
            [OutputKey |-> e.payload.TranscriptionStatus.OutputKey],
          originalFileName |-> <<e.payload.TranscriptionStatus.OutputKey>>]
    [] task = "GenerateSummary" ->
         [transcript |-> e.payload.ProcessingResult.transcript,
          metadata |-> e.payload.ProcessingResult.metadata]
    [] task = "FormatOutput" ->
         [summary |-> e.payload.SummaryResult.summary,
          metadata |-> e.payload.SummaryResult.metadata]

\* a poll that asks for the job named by the previous poll's reply
TaskInputJobFromPoll(e, task) ==
  CASE task = "TranscribeAudio" ->
         [ModelId |-> "amazon.titan-tg1-large",
          bucket |-> e.input.bucket,
          key |-> e.input.key]
    [] task = "CheckTranscriptionStatus" ->
         [JobId |-> e.payload.TranscriptionStatus.Status]
    [] task = "ProcessTranscript" ->
         [TranscriptionStatus |->
            [OutputKey |-> e.payload.TranscriptionStatus.OutputKey],
          originalFileName |-> e.input.key]
    [] task = "GenerateSummary" ->
         [transcript |-> e.payload.ProcessingResult.transcript,
          metadata |-> e.payload.ProcessingResult.metadata]
    [] task = "FormatOutput" ->
         [summary |-> e.payload.SummaryResult.summary,
          metadata |-> e.payload.SummaryResult.metadata]

\* a FormatOutput payload that leaves the metadata out
TaskInputWithoutMetadata(e, task) ==
  CASE task = "TranscribeAudio" ->
         [ModelId |-> "amazon.titan-tg1-large",
          bucket |-> e.input.bucket,
          key |-> e.input.key]
    [] task = "CheckTranscriptionStatus" ->
         [JobId |-> e.payload.TranscriptionJob.JobId]
    [] task = "ProcessTranscript" ->
         [TranscriptionStatus |->
            [OutputKey |-> e.payload.TranscriptionStatus.OutputKey],
          originalFileName |-> e.input.key]
    [] task = "GenerateSummary" ->
         [transcript |-> e.payload.ProcessingResult.transcript,
          metadata |-> e.payload.ProcessingResult.metadata]
    [] task = "FormatOutput" ->
         [summary |-> e.payload.SummaryResult.summary,
          metadata |-> NoMetadata]

\* payload: sfn.TaskInput.fromObject({...}) of each task: what the state
\* machine passes to the task's function
TaskInput(e, task) ==
  CASE task = "TranscribeAudio" ->
         [ModelId |-> "amazon.titan-tg1-large",
          bucket |-> e.input.bucket,
          key |-> e.input.key]
    [] task = "CheckTranscriptionStatus" ->
         [JobId |-> e.payload.TranscriptionJob.JobId]
    [] task = "ProcessTranscript" ->
         [TranscriptionStatus |->
            [OutputKey |-> e.payload.TranscriptionStatus.OutputKey],
          originalFileName |-> e.input.key]
    [] task = "GenerateSummary" ->
         [transcript |-> e.payload.ProcessingResult.transcript,
          metadata |-> e.payload.ProcessingResult.metadata]
    [] task = "FormatOutput" ->
         [summary |-> e.payload.SummaryResult.summary,
          metadata |-> e.payload.SummaryResult.metadata]

\* no invocation yet
NothingSent == [task |-> Null, event |-> [none |-> TRUE]]

\* the formatter's write for the payload of execution e
FormatterPut(bucket, e) ==
  LET event == TaskInput(e, "FormatOutput")
      episode_name == ExtractEpisodeName(event.summary)
      episode_summary == ExtractEpisodeSummary(event.summary)
  IN  PutObject(bucket, OutputKey(episode_name),
                FormatMarkdown(episode_name, episode_summary, event.metadata))

\* StartExecution: a new execution at StartAt = TranscribeAudio
NewExecution(input) ==
  [input |-> input,
   state |-> "TranscribeAudio",
   status |-> "RUNNING",
   elapsed |-> 0,
   retryCount |-> 0,
   payload |-> EmptyPayload,
   lastError |-> NoError,
   calls |-> [t \in CountedTasks |-> 0],
   polls |-> 0,
   pending |-> 0,
   jobs |-> 0,
   sent |-> NothingSent,
   raw |-> <<>>]

\* the execution status that goes with a state
StatusOf(state) ==
  IF state \in FailStates THEN "FAILED"
  ELSE IF state = "WorkflowComplete" THEN "SUCCEEDED"
  ELSE IF state = "TimedOut" THEN "TIMED_OUT"
  ELSE "RUNNING"

\* the execution enters a state: Fail and Succeed states end it at once
Enter(e, state) ==
  [e EXCEPT !.state = state,
            !.status = StatusOf(state),
            !.retryCount = 0,
            !.polls = IF state = "CheckTranscriptionStatus" THEN Inc(@) ELSE @]

\* Submit: every run of the transcribe function creates one job in the engine
JobCreated(task, out) == task = "TranscribeAudio" /\ out.ran

\* the Error and Cause of each Fail state
FailError(state) ==
  CASE state = "TranscriptionFailed" ->
         [error |-> "TranscriptionError", cause |-> "Transcription job failed"]
    [] state = "ProcessingFailed" ->
         [error |-> "ProcessingError", cause |-> "Transcript processing failed"]
    [] state = "SummarizationFailed" ->
         [error |-> "SummarizationError", cause |-> "Summary generation failed"]
    [] state = "FormattingFailed" ->
         [error |-> "FormattingError", cause |-> "Output formatting failed"]

\* a failure event that keeps the Fail state's fixed error, not the task's
ErrorOutputFixed(task, error, attempt) ==
  [state |-> task, error |-> FailError(CatchTarget(task)).error, attempt |-> attempt]

\* the failure event of a task attempt (TaskFailed: the error as raised),
\* which a catch hands on as the error output
ErrorOutput(task, error, attempt) ==
  [state |-> task, error |-> error, attempt |-> attempt]

\* one attempt of a LambdaInvoke task with outcome out =
\* [error, result, units]: result written at resultPath and the next state,
\* or a retry of the same state, or the catch target. lastError is the error
\* of the state's latest attempt, the one Retry and Catch look at.
LambdaInvoke(e, task, out) ==
  LET called == [e EXCEPT !.elapsed = Advance(@, out.units),
                          !.calls = IF task \in CountedTasks
                                      THEN [@ EXCEPT ![task] = IncCall(@)]
                                      ELSE @,
                          !.jobs = IF JobCreated(task, out) THEN IncCall(@) ELSE @,
                          !.sent = [task |-> task, event |-> TaskInput(e, task)]]
      failed == ErrorOutput(task, out.error, e.retryCount)
  IN  IF out.error = Null
        THEN Enter([called EXCEPT !.payload[ResultPath(task)] = out.result,
                                  !.lastError = NoError,
                                  !.raw = IF task = "ProcessTranscript"
                                            THEN out.read ELSE @],
                   NextState(task))
      ELSE IF ShouldRetry(task, out.error, e.retryCount)
        THEN [called EXCEPT !.retryCount = @ + 1, !.lastError = failed]
      ELSE Enter([called EXCEPT !.lastError = failed], CatchTarget(task))

----------------------------------------------------------------------------
(* What the Lambda functions and the services behind them may answer *)

\* every status and every error, from functions that answer within the unit
AnyAnswer ==
  [jobs |-> JobIds,
   statuses |-> StatusValues,
   retriable |-> RetryErrors,
   functionErrors |-> TRUE,
   units |-> {0},
   outputs |-> {"transcripts/job.json"},
   lost |-> {FALSE},
   titles |-> {<<"E", "p", " ", "1">>},
   bodies |-> {SummaryBody},
   transcripts |-> {OneTranscript}]

\* a provider whose job is over at the first poll, functions that raise
\* nothing and a healthy Lambda service
PromptAnswer ==
  [jobs |-> {"job-1"},
   statuses |-> {"COMPLETED", "FAILED"},
   retriable |-> {},
   functionErrors |-> FALSE,
   units |-> {0},
   outputs |-> {"transcripts/job.json"},
   lost |-> {FALSE},
   titles |-> {<<"E", "p", " ", "1">>, <<"E", "p", " ", "2">>, <<>>},
   bodies |-> {SummaryBody},
   transcripts |-> {OneTranscript}]

\* functions that may take as long as their Lambda timeout allows, a job
\* that runs for any number of polls
SlowAnswer ==
  [jobs |-> {"job-1"},
   statuses |-> {"RUNNING", "COMPLETED"},
   retriable |-> {},
   functionErrors |-> FALSE,
   units |-> {0, 1},
   outputs |-> {"transcripts/job.json"},
   lost |-> {FALSE},
   titles |-> {<<"E", "p", " ", "1">>},
   bodies |-> {SummaryBody},
   transcripts |-> {OneTranscript}]

\* a Lambda service whose error may reach Step Functions after the function
\* has run (a reply lost on the way back)
LostReply ==
  [jobs |-> JobIds,
   statuses |-> {"RUNNING", "COMPLETED", "FAILED"},
   retriable |-> {"Lambda.SdkClientException"},
   functionErrors |-> FALSE,
   units |-> {0},
   outputs |-> {"transcripts/job.json"},
   lost |-> {TRUE, FALSE},
   titles |-> {<<"E", "p", " ", "1">>},
   bodies |-> {SummaryBody},
   transcripts |-> {OneTranscript}]

\* a job that is over at the first poll and may have stored any raw transcript
CleanAnswer ==
  [jobs |-> {"job-1"},
   statuses |-> {"COMPLETED"},
   retriable |-> {},
   functionErrors |-> FALSE,
   units |-> {0},
   outputs |-> {"transcripts/job.json"},
   lost |-> {FALSE},
   titles |-> {<<"E", "p", " ", "1">>},
   bodies |-> {SummaryBody},
   transcripts |-> RawTranscripts]

\* a language model that may answer with any title, or none, and with or
\* without the summary section
FormatAnswer ==
  [jobs |-> {"job-1"},
   statuses |-> {"COMPLETED"},
   retriable |-> {},
   functionErrors |-> FALSE,
   units |-> {0},
   outputs |-> {"transcripts/job.json"},
   lost |-> {FALSE},
   titles |-> Titles,
   bodies |-> {SummaryBody, ""},
   transcripts |-> {OneTranscript}]

\* a status function that may spell the status in any case
CaseAnswer ==
  [jobs |-> {"job-1"},
   statuses |-> {"COMPLETED", "SUCCESS", "FAILED", "RUNNING"} \cup CaseVariants,
   retriable |-> {},
   functionErrors |-> FALSE,
   units |-> {0},
   outputs |-> {"transcripts/job.json"},
   lost |-> {FALSE},
   titles |-> {<<"E", "p", " ", "1">>},
   bodies |-> {SummaryBody},
   transcripts |-> {OneTranscript}]

\* what a successful invocation of the task's function returns (result) for
\* the event it is passed, and the raw transcript it read from the
\* transcripts bucket (read)
Replies(task, e, env) ==
  LET event == TaskInput(e, task) IN
  CASE task = "TranscribeAudio" ->
         {[result |-> [JobId |-> j], read |-> <<>>] : j \in env.jobs}
    [] task = "CheckTranscriptionStatus" ->
         {[result |-> [Status |-> st, OutputKey |-> o], read |-> <<>>] :
            st \in env.statuses, o \in env.outputs}
    [] task = "ProcessTranscript" ->
         {[result |-> TranscriptProcessor(event, d), read |-> d] :
            d \in env.transcripts}
    [] task = "GenerateSummary" ->
         {[result |-> [summary |-> [name |-> t, body |-> b],
                       metadata |-> event.metadata],
           read |-> <<>>] : t \in env.titles, b \in env.bodies}
    [] task = "FormatOutput" ->
         {[result |-> [outputKey |-> OutputKey(ExtractEpisodeName(event.summary))],
           read |-> <<>>]}

\* the Payload a successful invocation of the task's function returns
Results(task, e, env) == {r.result : r \in Replies(task, e, env)}

\* the outcomes of one attempt of a task
Outcomes(task, e, env) ==
  {[error |-> Null, result |-> r.result, read |-> r.read,
    units |-> u * TaskUnits(task), ran |-> TRUE] :
     r \in Replies(task, e, env), u \in env.units}
  \cup
  {[error |-> x, result |-> EmptyPayload[ResultPath(task)], read |-> <<>>,
    units |-> u * TaskUnits(task), ran |-> FALSE] :
     x \in env.retriable \cup
             (IF env.functionErrors THEN FunctionErrors(task) ELSE {}),
     u \in env.units}
  \cup
  {[error |-> x, result |-> EmptyPayload[ResultPath(task)], read |-> <<>>,
    units |-> u * TaskUnits(task), ran |-> TRUE] :
     x \in {y \in env.retriable : TRUE \in env.lost},
     u \in env.units}

\* a status after which the provider reports nothing new
IsFinalStatus(status) == status \in {"COMPLETED", "SUCCESS", "FAILED"}

----------------------------------------------------------------------------
(* The steps of one execution *)

Running(i) ==
  /\ i \in DOMAIN executions
  /\ executions[i].status = "RUNNING"

\* one attempt of the Lambda task the execution is in
TaskStep(i, task, env) ==
  /\ Running(i)
  /\ executions[i].state = task
  /\ \E out \in Outcomes(task, executions[i], env) :
       /\ ~Expired(executions[i].elapsed, out.units)
       /\ LET after == LambdaInvoke(executions[i], task, out)
              counted ==
                IF /\ task = "CheckTranscriptionStatus"
                   /\ out.error = Null
                   /\ ~IsFinalStatus(out.result.Status)
                  THEN [after EXCEPT !.pending = Inc(@)]
                  ELSE after
          IN  /\ executions' = [executions EXCEPT ![i] = counted]
              /\ outputBucket' =
                   IF task = "FormatOutput" /\ out.ran
                     THEN FormatterPut(outputBucket, executions[i])
                     ELSE outputBucket
  /\ UNCHANGED <<notifications, handlers, stateMachineArn, bucketNotification, requests>>

TranscribeAudio(i, env) == TaskStep(i, "TranscribeAudio", env)

CheckTranscriptionStatus(i, env) == TaskStep(i, "CheckTranscriptionStatus", env)

ProcessTranscript(i, env) == TaskStep(i, "ProcessTranscript", env)

GenerateSummary(i, env) == TaskStep(i, "GenerateSummary", env)

FormatOutput(i, env) == TaskStep(i, "FormatOutput", env)

\* a wait that takes no time
WaitForTranscriptionNoTime(i) ==
  /\ Running(i)
  /\ executions[i].state = "WaitForTranscription"
  /\ executions' =
       [executions EXCEPT ![i] = Enter(@, NextState("WaitForTranscription"))]
  /\ UNCHANGED <<notifications, handlers, stateMachineArn, outputBucket,
       bucketNotification, requests>>

\* the Wait state: one wait interval, then the poll
WaitForTranscription(i) ==
  /\ Running(i)
  /\ executions[i].state = "WaitForTranscription"
  /\ ~Expired(executions[i].elapsed, 1)
  /\ executions' =
       [executions EXCEPT
          ![i] = Enter([@ EXCEPT !.elapsed = Advance(@, 1)],
                       NextState("WaitForTranscription"))]
  /\ UNCHANGED <<notifications, handlers, stateMachineArn, outputBucket,
       bucketNotification, requests>>

\* a Choice that leaves the loop as soon as the poll names an output location
IsTranscriptionCompleteByOutput(i) ==
  /\ Running(i)
  /\ executions[i].state = "IsTranscriptionComplete"
  /\ executions' =
       [executions EXCEPT
          ![i] = Enter(@, IF @.payload.TranscriptionStatus.OutputKey # Null
                            THEN "ProcessTranscript"
                            ELSE ChoiceTarget(@.payload.TranscriptionStatus.Status))]
  /\ UNCHANGED <<notifications, handlers, stateMachineArn, outputBucket,
       bucketNotification, requests>>

\* the Choice state
IsTranscriptionComplete(i) ==
  /\ Running(i)
  /\ executions[i].state = "IsTranscriptionComplete"
  /\ executions' =
       [executions EXCEPT
          ![i] = Enter(@, ChoiceTarget(@.payload.TranscriptionStatus.Status))]
  /\ UNCHANGED <<notifications, handlers, stateMachineArn, outputBucket,
       bucketNotification, requests>>

\* the longest the state the execution is in may still take
StepUnits(state, env) ==
  IF state = "WaitForTranscription" THEN 1
  ELSE IF state \in Tasks
    THEN TaskUnits(state) * (CHOOSE u \in env.units : \A v \in env.units : v <= u)
  ELSE 0

\* a timeout that is not cancelled when the execution ends
ExecutionTimeoutNotCancelled(i, env) ==
  /\ i \in DOMAIN executions
  /\ executions[i].state # "TimedOut"
  /\ \/ executions[i].status # "RUNNING"
     \/ Expired(executions[i].elapsed, StepUnits(executions[i].state, env))
  /\ executions' =
       [executions EXCEPT
          ![i] = [@ EXCEPT !.state = "TimedOut",
                           !.status = StatusOf("TimedOut"),
                           !.elapsed = TimeoutUnits]]
  /\ UNCHANGED <<notifications, handlers, stateMachineArn, outputBucket,
       bucketNotification, requests>>

\* the state machine's timeout ends a running execution, whatever its state
ExecutionTimeout(i, env) ==
  /\ Running(i)
  /\ Expired(executions[i].elapsed, StepUnits(executions[i].state, env))
  /\ executions' =
       [executions EXCEPT
          ![i] = [@ EXCEPT !.state = "TimedOut",
                           !.status = StatusOf("TimedOut"),
                           !.elapsed = TimeoutUnits]]
  /\ UNCHANGED <<notifications, handlers, stateMachineArn, outputBucket,
       bucketNotification, requests>>

----------------------------------------------------------------------------
(* One started execution, every answer of the services *)

Init ==
  /\ \E k \in Keys :
       executions = <<NewExecution([bucket |-> InputBucket, key |-> k])>>
  /\ notifications = <<>>
  /\ handlers = <<>>
  /\ stateMachineArn = StateMachineArn
  /\ outputBucket = EmptyBucket
  /\ bucketNotification = NotificationOfStack
  /\ requests = <<>>

Next ==
  \/ \E i \in DOMAIN executions : TranscribeAudio(i, AnyAnswer)
  \/ \E i \in DOMAIN executions : WaitForTranscription(i)
  \/ \E i \in DOMAIN executions : CheckTranscriptionStatus(i, AnyAnswer)
  \/ \E i \in DOMAIN executions : IsTranscriptionComplete(i)
  \/ \E i \in DOMAIN executions : ProcessTranscript(i, AnyAnswer)
  \/ \E i \in DOMAIN executions : GenerateSummary(i, AnyAnswer)
  \/ \E i \in DOMAIN executions : FormatOutput(i, AnyAnswer)
  \/ \E i \in DOMAIN executions : ExecutionTimeout(i, AnyAnswer)

Spec == Init /\ [][Next]_vars

\* the Step Functions service runs every step of an execution that can run
FairSpec == Spec /\ WF_vars(Next)

\* one execution whose functions may be slow
SlowNext ==
  \/ \E i \in DOMAIN executions : TranscribeAudio(i, SlowAnswer)
  \/ \E i \in DOMAIN executions : WaitForTranscription(i)
  \/ \E i \in DOMAIN executions : CheckTranscriptionStatus(i, SlowAnswer)
  \/ \E i \in DOMAIN executions : IsTranscriptionComplete(i)
  \/ \E i \in DOMAIN executions : ProcessTranscript(i, SlowAnswer)
  \/ \E i \in DOMAIN executions : GenerateSummary(i, SlowAnswer)
  \/ \E i \in DOMAIN executions : FormatOutput(i, SlowAnswer)
  \/ \E i \in DOMAIN executions : ExecutionTimeout(i, SlowAnswer)

SlowSpec == Init /\ [][SlowNext]_vars

\* one execution under a Lambda service that may lose replies
RetryNext ==
  \/ \E i \in DOMAIN executions : TranscribeAudio(i, LostReply)
  \/ \E i \in DOMAIN executions : WaitForTranscription(i)
  \/ \E i \in DOMAIN executions : CheckTranscriptionStatus(i, LostReply)
  \/ \E i \in DOMAIN executions : IsTranscriptionComplete(i)
  \/ \E i \in DOMAIN executions : ProcessTranscript(i, LostReply)
  \/ \E i \in DOMAIN executions : GenerateSummary(i, LostReply)
  \/ \E i \in DOMAIN executions : FormatOutput(i, LostReply)
  \/ \E i \in DOMAIN executions : ExecutionTimeout(i, LostReply)

RetrySpec == Init /\ [][RetryNext]_vars

\* one execution whose job may have stored any raw transcript
CleanNext ==
  \/ \E i \in DOMAIN executions : TranscribeAudio(i, CleanAnswer)
  \/ \E i \in DOMAIN executions : WaitForTranscription(i)
  \/ \E i \in DOMAIN executions : CheckTranscriptionStatus(i, CleanAnswer)
  \/ \E i \in DOMAIN executions : IsTranscriptionComplete(i)
  \/ \E i \in DOMAIN executions : ProcessTranscript(i, CleanAnswer)
  \/ \E i \in DOMAIN executions : GenerateSummary(i, CleanAnswer)
  \/ \E i \in DOMAIN executions : FormatOutput(i, CleanAnswer)

CleanSpec == Init /\ [][CleanNext]_vars

\* one execution whose summary may be any model output
FormatNext ==
  \/ \E i \in DOMAIN executions : TranscribeAudio(i, FormatAnswer)
  \/ \E i \in DOMAIN executions : WaitForTranscription(i)
  \/ \E i \in DOMAIN executions : CheckTranscriptionStatus(i, FormatAnswer)
  \/ \E i \in DOMAIN executions : IsTranscriptionComplete(i)
  \/ \E i \in DOMAIN executions : ProcessTranscript(i, FormatAnswer)
  \/ \E i \in DOMAIN executions : GenerateSummary(i, FormatAnswer)
  \/ \E i \in DOMAIN executions : FormatOutput(i, FormatAnswer)

FormatSpec == Init /\ [][FormatNext]_vars

\* one execution whose polls may return the status in any case
CaseNext ==
  \/ \E i \in DOMAIN executions : TranscribeAudio(i, CaseAnswer)
  \/ \E i \in DOMAIN executions : WaitForTranscription(i)
  \/ \E i \in DOMAIN executions : CheckTranscriptionStatus(i, CaseAnswer)
  \/ \E i \in DOMAIN executions : IsTranscriptionComplete(i)
  \/ \E i \in DOMAIN executions : ProcessTranscript(i, CaseAnswer)
  \/ \E i \in DOMAIN executions : GenerateSummary(i, CaseAnswer)
  \/ \E i \in DOMAIN executions : FormatOutput(i, CaseAnswer)
  \/ \E i \in DOMAIN executions : ExecutionTimeout(i, CaseAnswer)

CaseSpec == Init /\ [][CaseNext]_vars

----------------------------------------------------------------------------
(* NotificationFunction: the custom resource handler that writes the      *)
(* notification configuration of the input bucket                          *)

\* the handler is invoked for a request and reaches its S3 call
RequestReceived(type) ==
  /\ Len(requests) < MaxRequests
  /\ requests' =
       Append(requests,
              [type |-> type,
               props |-> ResourceProperties,
               pc |-> "put",
               written |-> FALSE,
               sends |-> <<>>,
               responses |-> <<>>])
  /\ UNCHANGED <<executions, notifications, handlers, stateMachineArn,
                 outputBucket, bucketNotification>>

\* s3.putBucketNotificationConfiguration succeeds: the empty configuration
\* on Delete, the single Lambda notification otherwise
PutBucketNotification(r) ==
  /\ r \in DOMAIN requests
  /\ requests[r].pc = "put"
  /\ bucketNotification' =
       IF requests[r].type = "Delete"
         THEN NoNotification
         ELSE LambdaNotification(requests[r].props)
  /\ requests' = [requests EXCEPT ![r].pc = "SUCCESS", ![r].written = TRUE]
  /\ UNCHANGED <<executions, notifications, handlers, stateMachineArn, outputBucket>>

\* the S3 call rejects: the catch block is entered
PutBucketNotificationFailed(r) ==
  /\ r \in DOMAIN requests
  /\ requests[r].pc = "put"
  /\ requests' = [requests EXCEPT ![r].pc = "FAILED"]
  /\ UNCHANGED <<executions, notifications, handlers, stateMachineArn,
                 outputBucket, bucketNotification>>

\* await response.send(event, context, status, ...) delivers the response:
\* the handler returns
SendResponse(r) ==
  /\ r \in DOMAIN requests
  /\ requests[r].pc \in {"SUCCESS", "FAILED"}
  /\ requests' =
       [requests EXCEPT ![r].sends = Append(@, requests[r].pc),
                        ![r].responses = Append(@, requests[r].pc),
                        ![r].pc = "returned"]
  /\ UNCHANGED <<executions, notifications, handlers, stateMachineArn,
                 outputBucket, bucketNotification>>

\* await response.send(...) rejects: inside the try block the catch sends
\* FAILED, inside the catch block the handler throws
SendResponseFailed(r) ==
  /\ r \in DOMAIN requests
  /\ requests[r].pc \in {"SUCCESS", "FAILED"}
  /\ requests' =
       [requests EXCEPT ![r].sends = Append(@, requests[r].pc),
                        ![r].pc = IF @ = "SUCCESS" THEN "FAILED" ELSE "thrown"]
  /\ UNCHANGED <<executions, notifications, handlers, stateMachineArn,
                 outputBucket, bucketNotification>>

ProviderInit ==
  /\ executions = <<>>
  /\ notifications = <<>>
  /\ handlers = <<>>
  /\ stateMachineArn = StateMachineArn
  /\ outputBucket = EmptyBucket
  /\ bucketNotification \in {NoNotification, NotificationOfStack}
  /\ requests = <<>>

ProviderNext ==
  \/ \E type \in RequestTypes : RequestReceived(type)
  \/ \E r \in DOMAIN requests : PutBucketNotification(r)
  \/ \E r \in DOMAIN requests : PutBucketNotificationFailed(r)
  \/ \E r \in DOMAIN requests : SendResponse(r)
  \/ \E r \in DOMAIN requests : SendResponseFailed(r)

ProviderSpec == ProviderInit /\ [][ProviderNext]_vars

----------------------------------------------------------------------------
(* The S3 trigger: bucket notification, handler, StartExecution *)

\* an S3 record: record.s3.bucket.name and record.s3.object.key
Record(k) == [bucket |-> InputBucket, key |-> k]

\* a notification without its prefix filter
MatchesEveryKey(k) == TRUE

\* the bucket notification's filter: prefix 'uploads/'
MatchesFilter(k) == k[1] = "uploads/"

\* the events S3 may send for objects it created: 1 to MaxRecords records
Events ==
  UNION {[1 .. n -> {Record(k) : k \in Keys \cup OtherKeys}] : n \in 1 .. MaxRecords}

\* a result slot of the handler's Promise.all, before its call settles
Pending == [bucket |-> Null, key |-> Null, executionArn |-> 0, error |-> Null]

\* objects are created in the input bucket and S3 records one event for those
\* the filter lets through
ObjectCreated(ev) ==
  /\ Len(notifications) < MaxEvents
  /\ \A j \in DOMAIN ev : MatchesFilter(ev[j].key)
  /\ notifications' = Append(notifications, [records |-> ev, delivered |-> 0])
  /\ UNCHANGED <<executions, handlers, stateMachineArn, outputBucket,
       bucketNotification, requests>>

\* a handler that does not look at STATE_MACHINE_ARN before its start calls
HandlerInvokedWithoutCheck(n) ==
  /\ n \in DOMAIN notifications
  /\ notifications[n].delivered < MaxDeliveries
  /\ notifications' = [notifications EXCEPT ![n].delivered = @ + 1]
  /\ handlers' =
       Append(handlers,
              [event |-> n,
               records |-> notifications[n].records,
               results |-> [j \in DOMAIN notifications[n].records |-> Pending],
               pc |-> "started"])
  /\ UNCHANGED <<executions, stateMachineArn, outputBucket,
       bucketNotification, requests>>

\* S3 delivers a notification, possibly not for the first time, and the
\* handler begins: it throws when STATE_MACHINE_ARN is not set, and otherwise
\* issues one startExecution per record
HandlerInvoked(n) ==
  /\ n \in DOMAIN notifications
  /\ notifications[n].delivered < MaxDeliveries
  /\ notifications' = [notifications EXCEPT ![n].delivered = @ + 1]
  /\ handlers' =
       Append(handlers,
              [event |-> n,
               records |-> notifications[n].records,
               results |-> [j \in DOMAIN notifications[n].records |-> Pending],
               pc |-> IF stateMachineArn = "" THEN "thrown" ELSE "started"])
  /\ UNCHANGED <<executions, stateMachineArn, outputBucket,
       bucketNotification, requests>>

\* results that fill up in the order the calls settle
SettleInCompletionOrder(results, j, r) ==
  LET first == CHOOSE k \in DOMAIN results :
                 /\ results[k] = Pending
                 /\ \A m \in DOMAIN results : results[m] = Pending => k <= m
  IN  [results EXCEPT ![first] = r]

\* Promise.all(event.Records.map(...)): the value of record j's promise is
\* element j of the results
Settle(results, j, r) == [results EXCEPT ![j] = r]

\* stepfunctions.startExecution({stateMachineArn, input}) of record j settles
\* with a new execution: no name is passed, so every call that succeeds
\* starts an execution of its own
StartExecution(h, j) ==
  /\ h \in DOMAIN handlers
  /\ handlers[h].pc = "started"
  /\ j \in DOMAIN handlers[h].records
  /\ handlers[h].results[j] = Pending
  /\ stateMachineArn = StateMachineArn
  /\ Len(executions) < MaxExecs
  /\ executions' =
       Append(executions,
              NewExecution([bucket |-> handlers[h].records[j].bucket,
                            key |-> handlers[h].records[j].key]))
  /\ handlers' =
       [handlers EXCEPT
          ![h].results =
            Settle(@, j,
                   [bucket |-> handlers[h].records[j].bucket,
                    key |-> handlers[h].records[j].key,
                    executionArn |-> Len(executions) + 1,
                    error |-> Null])]
  /\ UNCHANGED <<notifications, stateMachineArn, outputBucket,
       bucketNotification, requests>>

\* the message of a startExecution call that is rejected
StartError(arn) ==
  IF arn = StateMachineArn THEN "ThrottlingException" ELSE "InvalidArn"

\* a record without its own catch: the rejection rejects Promise.all and the
\* handler throws
StartExecutionFailedThrows(h, j) ==
  /\ h \in DOMAIN handlers
  /\ handlers[h].pc = "started"
  /\ j \in DOMAIN handlers[h].records
  /\ handlers[h].results[j] = Pending
  /\ handlers' = [handlers EXCEPT ![h].pc = "thrown"]
  /\ UNCHANGED <<executions, notifications, stateMachineArn, outputBucket,
       bucketNotification, requests>>

\* startExecution of record j is rejected: the record's catch keeps the error
StartExecutionFailed(h, j) ==
  /\ h \in DOMAIN handlers
  /\ handlers[h].pc = "started"
  /\ j \in DOMAIN handlers[h].records
  /\ handlers[h].results[j] = Pending
  /\ handlers' =
       [handlers EXCEPT
          ![h].results =
            Settle(@, j,
                   [bucket |-> handlers[h].records[j].bucket,
                    key |-> handlers[h].records[j].key,
                    executionArn |-> 0,
                    error |-> StartError(stateMachineArn)])]
  /\ UNCHANGED <<executions, notifications, stateMachineArn, outputBucket,
       bucketNotification, requests>>

\* Promise.all resolved: the handler returns {status: 'success', executions: results}
HandlerReturned(h) ==
  /\ h \in DOMAIN handlers
  /\ handlers[h].pc = "started"
  /\ \A j \in DOMAIN handlers[h].results : handlers[h].results[j] # Pending
  /\ handlers' = [handlers EXCEPT ![h].pc = "success"]
  /\ UNCHANGED <<executions, notifications, stateMachineArn, outputBucket,
       bucketNotification, requests>>

\* the values STATE_MACHINE_ARN may hold: the ARN, the placeholder of
\* TriggersStack, nothing
ArnValues == {StateMachineArn, "WILL_BE_SET_LATER", ""}

TriggerInit ==
  /\ executions = <<>>
  /\ notifications = <<>>
  /\ handlers = <<>>
  /\ stateMachineArn \in ArnValues
  /\ outputBucket = EmptyBucket
  /\ bucketNotification = NotificationOfStack
  /\ requests = <<>>

\* the trigger and the executions it starts; the functions answer promptly,
\* so no execution lives long enough for the timeout
TriggerNext ==
  \/ \E ev \in Events : ObjectCreated(ev)
  \/ \E n \in DOMAIN notifications : HandlerInvoked(n)
  \/ \E h \in DOMAIN handlers : \E j \in DOMAIN handlers[h].records :
       StartExecution(h, j)
  \/ \E h \in DOMAIN handlers : \E j \in DOMAIN handlers[h].records :
       StartExecutionFailed(h, j)
  \/ \E h \in DOMAIN handlers : HandlerReturned(h)
  \/ \E i \in DOMAIN executions : TranscribeAudio(i, PromptAnswer)
  \/ \E i \in DOMAIN executions : WaitForTranscription(i)
  \/ \E i \in DOMAIN executions : CheckTranscriptionStatus(i, PromptAnswer)
  \/ \E i \in DOMAIN executions : IsTranscriptionComplete(i)
  \/ \E i \in DOMAIN executions : ProcessTranscript(i, PromptAnswer)
  \/ \E i \in DOMAIN executions : GenerateSummary(i, PromptAnswer)
  \/ \E i \in DOMAIN executions : FormatOutput(i, PromptAnswer)

TriggerSpec == TriggerInit /\ [][TriggerNext]_vars

----------------------------------------------------------------------------
(* Claims *)

Ended(i) == executions[i].status # "RUNNING"

\* C2: a start for a (bucket, key) that already has a RUNNING or SUCCEEDED
\* execution is a no-op: no step adds an execution for such an input.
C2_StartIdempotent ==
  [][Len(executions') > Len(executions) =>
       \A i \in DOMAIN executions :
         executions[i].input = executions'[Len(executions')].input
           => executions[i].status \notin {"RUNNING", "SUCCEEDED"}]_vars

\* C1: under fair scheduling every started execution reaches a terminal
\* state (WorkflowComplete, a Fail state or TimedOut) and stays there: none
\* remains forever in a task, wait or choice state, whatever the functions
\* answer.
C1_EveryExecutionEnds ==
  <>[](\A i \in DOMAIN executions :
         /\ Ended(i)
         /\ executions[i].state \in TerminalStates)

\* an execution that the timeout ended after polling through the whole half hour
C1_Witness ==
  \E i \in DOMAIN executions :
    /\ executions[i].state = "TimedOut"
    /\ executions[i].pending >= 3

\* the execution got past the poll loop
PastLoop(i) ==
  executions[i].state \in
    {"ProcessTranscript", "GenerateSummary", "FormatOutput", "WorkflowComplete",
     "ProcessingFailed", "SummarizationFailed", "FormattingFailed"}

PollStatus(i) == executions[i].payload.TranscriptionStatus.Status

\* C3: when the polls return n statuses that leave the job unfinished and
\* then COMPLETED, the execution has polled exactly n + 1 times when it
\* enters ProcessTranscript; the poll state is entered only from the wait
\* state, after one wait interval; and ProcessTranscript is entered only from
\* the decision on a poll that returned a completed status.
C3_PollLoop ==
  /\ [](\A i \in DOMAIN executions :
          PastLoop(i) =>
            /\ PollStatus(i) \in {"COMPLETED", "SUCCESS"}
            /\ executions[i].polls = executions[i].pending + 1)
  /\ [][\A i \in DOMAIN executions :
          /\ executions[i].state # "CheckTranscriptionStatus"
          /\ executions'[i].state = "CheckTranscriptionStatus"
          => /\ executions[i].state = "WaitForTranscription"
             /\ executions'[i].elapsed = executions[i].elapsed + 1
             /\ executions'[i].polls = executions[i].polls + 1]_vars
  /\ [][\A i \in DOMAIN executions :
          /\ executions[i].state # "ProcessTranscript"
          /\ executions'[i].state = "ProcessTranscript"
          => /\ executions[i].state = "IsTranscriptionComplete"
             /\ PollStatus(i) \in {"COMPLETED", "SUCCESS"}]_vars

\* the spec's example: SUBMITTED, RUNNING, RUNNING, COMPLETED and four polls
C3_Witness ==
  \E i \in DOMAIN executions :
    /\ executions[i].state = "ProcessTranscript"
    /\ PollStatus(i) = "COMPLETED"
    /\ executions[i].pending = 3
    /\ executions[i].polls = 4
    /\ executions[i].elapsed = 4

\* C4: an execution whose TranscribeAudio task failed is in
\* TranscriptionFailed, with status FAILED, and has never polled.
C4_SubmitFailure ==
  \A i \in DOMAIN executions :
    LET e == executions[i] IN
    (e.lastError.state = "TranscribeAudio" /\ e.state # "TranscribeAudio")
      => /\ e.state = "TranscriptionFailed"
         /\ e.status = "FAILED"
         /\ e.polls = 0
         /\ e.payload.TranscriptionStatus.Status = Null

C4_Witness ==
  \E i \in DOMAIN executions :
    /\ executions[i].state = "TranscriptionFailed"
    /\ executions[i].lastError.state = "TranscribeAudio"
    /\ executions[i].lastError.error = "SubmissionError"

\* C5: the decision after a poll depends on the polled status alone:
\* COMPLETED leads to ProcessTranscript, FAILED to TranscriptionFailed, and
\* RUNNING or SUBMITTED back to the wait state.
C5_Decision ==
  [][\A i \in DOMAIN executions :
       /\ executions[i].state = "IsTranscriptionComplete"
       /\ executions'[i] # executions[i]
       => /\ PollStatus(i) = "COMPLETED"
               => executions'[i].state = "ProcessTranscript"
          /\ PollStatus(i) = "FAILED"
               => /\ executions'[i].state = "TranscriptionFailed"
                  /\ executions'[i].status = "FAILED"
          /\ PollStatus(i) \in {"RUNNING", "SUBMITTED"}
               => /\ executions'[i].state = "WaitForTranscription"
                  /\ executions'[i].status = "RUNNING"]_vars

\* a poll that returned FAILED ended the execution in TranscriptionFailed
C5_Witness ==
  \E i \in DOMAIN executions :
    /\ executions[i].state = "TranscriptionFailed"
    /\ PollStatus(i) = "FAILED"
    /\ executions[i].pending >= 1

TransientFailure(e) == e.lastError.error \in RetryErrors

\* the latest attempt failed with an error of the function itself
PermanentFailure(e) ==
  e.lastError.error # Null /\ e.lastError.error \notin RetryErrors

C7_WitnessExhausted ==
  \E i \in DOMAIN executions :
    /\ executions[i].state = "TranscriptionFailed"
    /\ executions[i].lastError.state = "CheckTranscriptionStatus"
    /\ TransientFailure(executions[i])

\* the failure state of each task
FailureStateOf(task) ==
  CASE task \in {"TranscribeAudio", "CheckTranscriptionStatus"} -> "TranscriptionFailed"
    [] task = "ProcessTranscript" -> "ProcessingFailed"
    [] task = "GenerateSummary" -> "SummarizationFailed"
    [] task = "FormatOutput" -> "FormattingFailed"
    [] OTHER -> Null

\* C8: an error of the function itself (unknown job id, malformed transcript,
\* unusable model output) is not retried: the attempt that raised it is the
\* state's last, and the execution is in the failure state of that stage, FAILED.
C8_PermanentError ==
  /\ [](\A i \in DOMAIN executions :
          PermanentFailure(executions[i])
            => /\ executions[i].state = FailureStateOf(executions[i].lastError.state)
               /\ executions[i].status = "FAILED")
  /\ [][\A i \in DOMAIN executions :
          /\ executions'[i] # executions[i]
          /\ PermanentFailure(executions'[i])
          => /\ executions[i].state = executions'[i].lastError.state
             /\ executions[i].status = "RUNNING"
             /\ executions'[i].retryCount = 0
             /\ \A t \in CountedTasks \ {executions[i].state} :
                  executions'[i].calls[t] = executions[i].calls[t]]_vars

\* an unknown job id fails the poll at its first attempt
C8_Witness ==
  \E i \in DOMAIN executions :
    /\ executions[i].state = "TranscriptionFailed"
    /\ executions[i].lastError =
         [state |-> "CheckTranscriptionStatus", error |-> "PermanentPollError",
          attempt |-> 0]

C10_StageRouting ==
  \A i \in DOMAIN executions :
    LET e == executions[i] IN
    /\ e.state = "ProcessingFailed" <=>
         (e.status = "FAILED" /\ e.lastError.state = "ProcessTranscript")
    /\ e.state = "SummarizationFailed" <=>
         (e.status = "FAILED" /\ e.lastError.state = "GenerateSummary")
    /\ e.state = "FormattingFailed" <=>
         (e.status = "FAILED" /\ e.lastError.state = "FormatOutput")
    /\ e.state \in {"TranscriptionFailed", "ProcessingFailed"} =>
         e.calls["GenerateSummary"] = 0 /\ e.payload.SummaryResult = EmptyPayload.SummaryResult
    /\ e.state \in {"TranscriptionFailed", "ProcessingFailed", "SummarizationFailed"} =>
         e.calls["FormatOutput"] = 0 /\ e.payload.FormattingResult = EmptyPayload.FormattingResult
    /\ e.state = "TranscriptionFailed" => e.calls["ProcessTranscript"] = 0
    /\ e.state \in {"GenerateSummary", "SummarizationFailed"} =>
         e.payload.ProcessingResult # EmptyPayload.ProcessingResult
    /\ e.state \in {"FormatOutput", "FormattingFailed"} =>
         e.payload.SummaryResult # EmptyPayload.SummaryResult
    /\ e.state = "WorkflowComplete" => e.payload.FormattingResult # EmptyPayload.FormattingResult

C10_Witness ==
  \E i \in DOMAIN executions :
    /\ executions[i].state = "SummarizationFailed"
    /\ executions[i].lastError.error = "GenerationError"
    /\ executions[i].calls["ProcessTranscript"] = 1

\* the errors an attempt of the task can end with
ErrorsOf(task) == RetryErrors \cup FunctionErrors(task)

C12_TerminalAbsorbing ==
  /\ [](\A i \in DOMAIN executions :
          /\ executions[i].state \in TerminalStates <=> Ended(i)
          /\ executions[i].state = "WorkflowComplete" <=>
               executions[i].status = "SUCCEEDED"
          /\ executions[i].state \in FailStates <=> executions[i].status = "FAILED")
  /\ [][\A i \in DOMAIN executions :
          executions[i].state \in TerminalStates =>
            executions'[i] = executions[i]]_vars

\* an execution that succeeded after a second poll
C12_Witness ==
  \E i \in DOMAIN executions :
    /\ executions[i].state = "WorkflowComplete"
    /\ executions[i].status = "SUCCEEDED"
    /\ executions[i].polls = 2

\* the result of the task is recorded in the payload
Recorded(e, task) ==
  e.payload[ResultPath(task)] # EmptyPayload[ResultPath(task)]

\* the transitions of the defined sequence
OrderedSteps ==
  {<<"TranscribeAudio", "WaitForTranscription">>,
   <<"WaitForTranscription", "CheckTranscriptionStatus">>,
   <<"CheckTranscriptionStatus", "IsTranscriptionComplete">>,
   <<"IsTranscriptionComplete", "WaitForTranscription">>,
   <<"IsTranscriptionComplete", "ProcessTranscript">>,
   <<"ProcessTranscript", "GenerateSummary">>,
   <<"GenerateSummary", "FormatOutput">>,
   <<"FormatOutput", "WorkflowComplete">>}

\* C13: the stages run in the order TranscribeAudio, poll loop,
\* ProcessTranscript, GenerateSummary, FormatOutput, WorkflowComplete: a
\* stage is invoked only with its predecessor's result recorded, no stage is
\* skipped, and every other step ends the execution.
C13_StageOrder ==
  /\ [](\A i \in DOMAIN executions :
          LET e == executions[i] IN
          /\ e.state = "TranscribeAudio" =>
               \A t \in Tasks : ~Recorded(e, t)
          /\ e.state # "TranscribeAudio" /\ e.status = "RUNNING" =>
               Recorded(e, "TranscribeAudio")
          /\ e.polls > 0 => Recorded(e, "TranscribeAudio")
          /\ e.calls["ProcessTranscript"] > 0 =>
               /\ Recorded(e, "TranscribeAudio")
               /\ PollStatus(i) \in {"COMPLETED", "SUCCESS"}
          /\ e.calls["GenerateSummary"] > 0 => Recorded(e, "ProcessTranscript")
          /\ e.calls["FormatOutput"] > 0 => Recorded(e, "GenerateSummary")
          /\ e.state = "ProcessTranscript" =>
               PollStatus(i) \in {"COMPLETED", "SUCCESS"}
          /\ e.state = "GenerateSummary" => Recorded(e, "ProcessTranscript")
          /\ e.state = "FormatOutput" => Recorded(e, "GenerateSummary")
          /\ e.state = "WorkflowComplete" =>
               /\ \A t \in Tasks : Recorded(e, t)
               /\ \A t \in CountedTasks : e.calls[t] > 0
          /\ Recorded(e, "FormatOutput") => e.state = "WorkflowComplete"
          /\ Recorded(e, "GenerateSummary") => Recorded(e, "ProcessTranscript")
          /\ Recorded(e, "ProcessTranscript") => Recorded(e, "CheckTranscriptionStatus")
          /\ Recorded(e, "CheckTranscriptionStatus") => Recorded(e, "TranscribeAudio"))
  /\ [][\A i \in DOMAIN executions :
          executions'[i].state # executions[i].state =>
            \/ <<executions[i].state, executions'[i].state>> \in OrderedSteps
            \/ executions'[i].state \in FailStates \cup {"TimedOut"}]_vars

\* an execution that went through every stage once, after three polls
C13_Witness ==
  \E i \in DOMAIN executions :
    /\ executions[i].state = "WorkflowComplete"
    /\ executions[i].polls = 3
    /\ \A t \in CountedTasks : executions[i].calls[t] = 1

\* C14: no execution runs, succeeds or fails at or past the 30 minutes: one
\* whose time is up is in TimedOut, whatever state it was in (the loop or a
\* running function), a wait that would end at the 30 minutes ends in
\* TimedOut, and a timed-out execution stays TimedOut.
C14_Timeout ==
  /\ [](\A i \in DOMAIN executions :
          /\ executions[i].state # "TimedOut" =>
               executions[i].elapsed < TimeoutUnits
          /\ executions[i].state = "TimedOut" =>
               /\ executions[i].status = "TIMED_OUT"
               /\ executions[i].elapsed = TimeoutUnits)
  /\ [][\A i \in DOMAIN executions :
          /\ executions[i].state = "TimedOut" =>
               executions'[i].state = "TimedOut"
          /\ (/\ executions[i].state = "WaitForTranscription"
              /\ executions[i].elapsed = TimeoutUnits - 1
              /\ executions'[i] # executions[i]) =>
               executions'[i].state = "TimedOut"
          /\ (/\ executions[i].state \in Tasks
              /\ executions'[i].state \notin {executions[i].state, "TimedOut"}) =>
               executions'[i].elapsed - executions[i].elapsed
                 \in {0, TaskUnits(executions[i].state)}]_vars

\* an execution whose time ran out while the summarizer was running
C14_Witness ==
  \E i \in DOMAIN executions :
    /\ executions[i].state = "TimedOut"
    /\ Recorded(executions[i], "ProcessTranscript")
    /\ ~Recorded(executions[i], "GenerateSummary")
    /\ executions[i].calls["GenerateSummary"] = 0

\* the output location of the latest poll
PollOutput(i) == executions[i].payload.TranscriptionStatus.OutputKey

C16_OneJob ==
  \A i \in DOMAIN executions :
    /\ executions[i].jobs <= 1
    /\ Recorded(executions[i], "TranscribeAudio") => executions[i].jobs = 1

\* the start calls that returned an execution: <<handler, record>>
Started ==
  {hj \in {<<h, j>> : h \in DOMAIN handlers, j \in 1 .. MaxRecords + 1} :
     /\ hj[2] \in DOMAIN handlers[hj[1]].results
     /\ handlers[hj[1]].results[hj[2]].executionArn # 0}

\* C17: a handler invocation for an event of N records has N result slots;
\* the slot of record i settles once, with the bucket and key of record i and
\* either the execution started with exactly that input or the error of its
\* start call, in whatever order the calls settle; the handler returns only
\* when all N have settled; every execution comes from exactly one call.
C17_OneStartPerRecord ==
  /\ \A h \in DOMAIN handlers :
       LET H == handlers[h] IN
       /\ DOMAIN H.results = DOMAIN H.records
       /\ H.records = notifications[H.event].records
       /\ \A j \in DOMAIN H.results :
            H.results[j].bucket # Null =>
              /\ H.results[j].bucket = H.records[j].bucket
              /\ H.results[j].key = H.records[j].key
              /\ H.results[j].executionArn # 0 =>
                   /\ H.results[j].executionArn \in DOMAIN executions
                   /\ executions[H.results[j].executionArn].input =
                        [bucket |-> H.records[j].bucket, key |-> H.records[j].key]
                   /\ H.results[j].error = Null
              /\ H.results[j].executionArn = 0 => H.results[j].error # Null
       /\ H.pc = "success" => \A j \in DOMAIN H.results : H.results[j].bucket # Null
       /\ H.pc = "thrown" => \A j \in DOMAIN H.results : H.results[j].bucket = Null
  /\ \A a, b \in Started :
       a # b => handlers[a[1]].results[a[2]].executionArn #
                  handlers[b[1]].results[b[2]].executionArn
  /\ Cardinality(Started) = Len(executions)

\* a handler that returned for two records of different keys whose start
\* calls settled in the reverse order
C17_Witness ==
  \E h \in DOMAIN handlers :
    /\ handlers[h].pc = "success"
    /\ Len(handlers[h].records) = 2
    /\ handlers[h].records[1].key # handlers[h].records[2].key
    /\ handlers[h].results[1].executionArn = 2
    /\ handlers[h].results[2].executionArn = 1

\* C18: every execution was started for an object of the input bucket under
\* uploads/, and so was every notification record and every start call; an
\* object under another prefix causes none.
C18_UploadsOnly ==
  /\ \A i \in DOMAIN executions :
       /\ executions[i].input.bucket = InputBucket
       /\ executions[i].input.key[1] = "uploads/"
  /\ \A n \in DOMAIN notifications : \A j \in DOMAIN notifications[n].records :
       notifications[n].records[j].key[1] = "uploads/"
  /\ \A h \in DOMAIN handlers : \A j \in DOMAIN handlers[h].records :
       handlers[h].records[j].key[1] = "uploads/"

\* two executions started by one event for two objects under uploads/
C18_Witness ==
  /\ Len(executions) = 2
  /\ executions[1].input.key = <<"uploads/", "b.mp3">>
  /\ executions[2].input.key = <<"uploads/", "a.mp3">>
  /\ executions[2].status = "SUCCEEDED"

\* C19: two successful executions for the same (bucket, key) stored their
\* artifact under the same output key.
C19_SameOutputKey ==
  \A i, j \in DOMAIN executions :
    (/\ executions[i].status = "SUCCEEDED"
     /\ executions[j].status = "SUCCEEDED"
     /\ executions[i].input = executions[j].input)
    => executions[i].payload.FormattingResult.outputKey =
         executions[j].payload.FormattingResult.outputKey

\* C20: the artifact of every successful execution is stored under its
\* output key as that execution wrote it (the document of its own input):
\* no other execution has overwritten it.
C20_Independent ==
  \A i \in DOMAIN executions :
    executions[i].status = "SUCCEEDED" =>
      LET key == executions[i].payload.FormattingResult.outputKey IN
      /\ key \in DOMAIN outputBucket
      /\ outputBucket[key].source = executions[i].input.key

\* C23: the input of an execution never changes after its start, and it is
\* what the tasks are given: TranscribeAudio is invoked with the bucket and
\* key of the input, ProcessTranscript with the input's key as
\* originalFileName, which is the name the recorded metadata carries.
C23_InputImmutable ==
  /\ [][\A i \in DOMAIN executions :
          executions'[i].input = executions[i].input]_vars
  /\ [](\A i \in DOMAIN executions :
          LET e == executions[i] IN
          /\ e.sent.task = "TranscribeAudio"
               => /\ e.sent.event.bucket = e.input.bucket
                  /\ e.sent.event.key = e.input.key
          /\ e.sent.task = "ProcessTranscript"
               => e.sent.event.originalFileName = e.input.key
          /\ Recorded(e, "ProcessTranscript")
               => e.payload.ProcessingResult.metadata.originalFileName = e.input.key)

\* ProcessTranscript has just been invoked for b.mp3, after two polls
C23_Witness ==
  \E i \in DOMAIN executions :
    /\ executions[i].input.key = <<"uploads/", "b.mp3">>
    /\ executions[i].polls = 2
    /\ executions[i].state = "GenerateSummary"
    /\ executions[i].sent.task = "ProcessTranscript"
    /\ executions[i].sent.event.originalFileName = <<"uploads/", "b.mp3">>

\* C30: the job id TranscribeAudio returned is what every poll asks about,
\* and nothing after TranscribeAudio replaces it: a poll's result goes to
\* TranscriptionStatus and leaves TranscriptionJob alone.
C30_JobIdCarried ==
  /\ [](\A i \in DOMAIN executions :
          LET e == executions[i] IN
          e.sent.task = "CheckTranscriptionStatus"
            => /\ e.sent.event.JobId = e.payload.TranscriptionJob.JobId
               /\ e.sent.event.JobId \in JobIds)
  /\ [][\A i \in DOMAIN executions :
          executions[i].state # "TranscribeAudio"
            => executions'[i].payload.TranscriptionJob =
                 executions[i].payload.TranscriptionJob]_vars

\* the second poll of job-2 has answered RUNNING
C30_Witness ==
  \E i \in DOMAIN executions :
    /\ executions[i].polls = 2
    /\ executions[i].state = "IsTranscriptionComplete"
    /\ executions[i].sent.task = "CheckTranscriptionStatus"
    /\ executions[i].sent.event.JobId = "job-2"
    /\ executions[i].payload.TranscriptionStatus.Status = "RUNNING"

\* C24: a raw transcript with zero segments makes the transcript step fail:
\* no processing result is ever recorded for it.
C24_EmptyTranscriptFails ==
  \A i \in DOMAIN executions :
    Recorded(executions[i], "ProcessTranscript") => executions[i].raw # <<>>

\* C25: the transcript the transcript step records holds, for every segment
\* of the raw transcript and in the order of the segments, the speaker (or
\* "Unknown"), a separator, the segment's text and a paragraph break, and
\* nothing else: no segment is dropped, duplicated or moved.
C25_EverySegmentInOrder ==
  \A i \in DOMAIN executions :
    Recorded(executions[i], "ProcessTranscript")
      => LET raw == executions[i].raw
             transcript == executions[i].payload.ProcessingResult.transcript
         IN  /\ Len(transcript) = 4 * Len(raw)
             /\ \A k \in DOMAIN raw :
                  /\ transcript[4 * k - 3] = SpeakerOf(raw[k])
                  /\ transcript[4 * k - 2] = ": "
                  /\ transcript[4 * k - 1] = TextOf(raw[k])
                  /\ transcript[4 * k] = "\n\n"

\* a transcript of two different segments, the second without a speaker
C25_Witness ==
  \E i \in DOMAIN executions :
    /\ executions[i].state = "GenerateSummary"
    /\ executions[i].raw = <<[speaker |-> "B", text |-> "hi"], [text |-> "bye"]>>
    /\ executions[i].payload.ProcessingResult.transcript =
         <<"B", ": ", "hi", "\n\n", "Unknown", ": ", "bye", "\n\n">>

\* the episode name the formatter extracts from the recorded summary
EpisodeName(e) == ExtractEpisodeName(e.payload.SummaryResult.summary)

\* the safe name inside the output key the formatter returned
Slug(e) == e.payload.FormattingResult.outputKey[2]

\* C26: a summary with no summary body makes the format step fail: it
\* records no result and stores no artifact.
C26_NoBodyFails ==
  \A i \in DOMAIN executions :
    /\ Recorded(executions[i], "GenerateSummary")
    /\ executions[i].payload.SummaryResult.summary.body = ""
    => /\ ~Recorded(executions[i], "FormatOutput")
       /\ DOMAIN outputBucket = {}

\* C27: a summary with a body and no title does not make the format step
\* fail: the artifact is titled "Untitled Episode" and stored under the key
\* made from that title.
C27_UntitledDefault ==
  \A i \in DOMAIN executions :
    LET e == executions[i]
        key == <<"summaries/",
                 <<"U", "n", "t", "i", "t", "l", "e", "d", "_",
                   "E", "p", "i", "s", "o", "d", "e">>,
                 ".md">>
    IN  /\ e.payload.SummaryResult.summary.name = <<>>
        /\ e.payload.SummaryResult.summary.body # ""
        => /\ e.state # "FormattingFailed"
           /\ e.sent.task = "FormatOutput"
                => /\ Recorded(e, "FormatOutput")
                   /\ e.payload.FormattingResult.outputKey = key
                   /\ key \in DOMAIN outputBucket
                   /\ outputBucket[key].title = UntitledEpisode
                   /\ outputBucket[key].summary = SummaryBody

\* an untitled summary with a body has been formatted and stored
C27_Witness ==
  \E i \in DOMAIN executions :
    /\ executions[i].payload.SummaryResult.summary = [name |-> <<>>, body |-> SummaryBody]
    /\ executions[i].sent.task = "FormatOutput"
    /\ executions[i].status = "SUCCEEDED"
    /\ DOMAIN outputBucket # {}

\* ASCII letters and digits
Alphanumerics == SafeChars \ {"_", "-"}

\* C28 as stated: the safe name has the length of the episode name, keeps
\* its letters and digits and has '_' in the place of every other character.
C28_OnlyAlphanumericsKept ==
  \A i \in DOMAIN executions :
    Recorded(executions[i], "FormatOutput")
      => LET name == EpisodeName(executions[i])
             slug == Slug(executions[i])
         IN  /\ Len(slug) = Len(name)
             /\ \A c \in DOMAIN name :
                  slug[c] = IF name[c] \in Alphanumerics THEN name[c] ELSE "_"

\* C28: the safe name has the length of the episode name, keeps its letters,
\* digits, '_' and '-' and has '_' in the place of every other character;
\* "Episode 5: Raising Kids!" becomes "Episode_5__Raising_Kids_".
C28_SafeCharsKept ==
  /\ SafeName(<<"E", "p", "i", "s", "o", "d", "e", " ", "5", ":", " ",
                "R", "a", "i", "s", "i", "n", "g", " ", "K", "i", "d", "s", "!">>)
       = <<"E", "p", "i", "s", "o", "d", "e", "_", "5", "_", "_",
           "R", "a", "i", "s", "i", "n", "g", "_", "K", "i", "d", "s", "_">>
  /\ \A i \in DOMAIN executions :
       Recorded(executions[i], "FormatOutput")
         => LET name == EpisodeName(executions[i])
                slug == Slug(executions[i])
            IN  /\ Len(slug) = Len(name)
                /\ \A c \in DOMAIN name :
                     slug[c] = IF name[c] \in SafeChars THEN name[c] ELSE "_"

\* the name "5-" has been made into the safe name "5-", and "- " into "-_"
C28_Witness ==
  \E i \in DOMAIN executions :
    /\ Recorded(executions[i], "FormatOutput")
    /\ \/ /\ EpisodeName(executions[i]) = <<"5", "-">>
          /\ Slug(executions[i]) = <<"5", "-">>
       \/ /\ EpisodeName(executions[i]) = <<"-", " ">>
          /\ Slug(executions[i]) = <<"-", "_">>

\* C29: the key the formatter returns and stores under is 'summaries/', the
\* safe name and '.md', and the safe name holds no '/'.
C29_OutputKeyShape ==
  \A i \in DOMAIN executions :
    Recorded(executions[i], "FormatOutput")
      => LET key == executions[i].payload.FormattingResult.outputKey
         IN  /\ Len(key) = 3
             /\ key[1] = "summaries/"
             /\ key[3] = ".md"
             /\ key[2] = SafeName(EpisodeName(executions[i]))
             /\ \A c \in DOMAIN key[2] : key[2][c] # "/"
             /\ key \in DOMAIN outputBucket

\* a name with a '/' has been stored under a key without it
C29_Witness ==
  \E i \in DOMAIN executions :
    /\ Recorded(executions[i], "FormatOutput")
    /\ EpisodeName(executions[i]) = <<"a", "/">>
    /\ <<"summaries/", <<"a", "_">>, ".md">> \in DOMAIN outputBucket

\* C31: GenerateSummary is given the transcript and metadata ProcessTranscript
\* recorded, FormatOutput the summary and metadata GenerateSummary recorded,
\* the metadata FormatOutput is given is the one ProcessTranscript produced,
\* and a task's step changes no result field but its own.
C31_FieldContract ==
  /\ [](\A i \in DOMAIN executions :
          LET e == executions[i] IN
          /\ e.sent.task = "GenerateSummary"
               => /\ Recorded(e, "ProcessTranscript")
                  /\ e.sent.event.transcript = e.payload.ProcessingResult.transcript
                  /\ e.sent.event.metadata = e.payload.ProcessingResult.metadata
          /\ e.sent.task = "FormatOutput"
               => /\ Recorded(e, "GenerateSummary")
                  /\ e.sent.event.summary = e.payload.SummaryResult.summary
                  /\ e.sent.event.metadata = e.payload.SummaryResult.metadata
                  /\ e.sent.event.metadata = e.payload.ProcessingResult.metadata)
  /\ [][\A i \in DOMAIN executions : \A task \in Tasks :
          executions[i].state = task
            => \A t \in Tasks \ {task} :
                 executions'[i].payload[ResultPath(t)] =
                   executions[i].payload[ResultPath(t)]]_vars

\* the formatter has been given the metadata of b.mp3 and has succeeded
C31_Witness ==
  \E i \in DOMAIN executions :
    /\ executions[i].status = "SUCCEEDED"
    /\ executions[i].sent.task = "FormatOutput"
    /\ executions[i].sent.event.metadata = [originalFileName |-> <<"uploads/", "b.mp3">>]
    /\ executions[i].sent.event.summary.name = <<"E", "p", " ", "1">>
    /\ Recorded(executions[i], "FormatOutput")

\* C32: the decision after a poll goes to ProcessTranscript exactly when the
\* polled status is the string COMPLETED or the string SUCCESS, to
\* TranscriptionFailed exactly when it is the string FAILED, and back to the
\* wait state for every other string, the same words in another case included.
C32_ExactStatus ==
  [][\A i \in DOMAIN executions :
       /\ executions[i].state = "IsTranscriptionComplete"
       /\ executions'[i] # executions[i]
       => /\ executions'[i].state = "ProcessTranscript"
               <=> PollStatus(i) \in {"COMPLETED", "SUCCESS"}
          /\ executions'[i].state = "TranscriptionFailed"
               <=> PollStatus(i) = "FAILED"
          /\ executions'[i].state = "WaitForTranscription"
               <=> PollStatus(i) \notin {"COMPLETED", "SUCCESS", "FAILED"}
          /\ PollStatus(i) \in CaseVariants
               => /\ executions'[i].state = "WaitForTranscription"
                  /\ executions'[i].status = "RUNNING"]_vars

\* the execution waits again after two polls, the second saying "completed"
C32_Witness ==
  \E i \in DOMAIN executions :
    /\ executions[i].state = "WaitForTranscription"
    /\ PollStatus(i) = "completed"
    /\ executions[i].polls = 2
    /\ executions[i].pending = 2

C34_RecordFailureIsolated ==
  /\ [](\A h \in DOMAIN handlers :
          LET H == handlers[h] IN
          /\ H.pc = "thrown" => stateMachineArn = ""
          /\ H.pc = "success" =>
               \A j \in DOMAIN H.records :
                 /\ H.results[j].bucket = H.records[j].bucket
                 /\ H.results[j].key = H.records[j].key
                 /\ \/ /\ H.results[j].error # Null
                       /\ H.results[j].executionArn = 0
                    \/ /\ H.results[j].error = Null
                       /\ H.results[j].executionArn \in DOMAIN executions)
  /\ [][\A h \in DOMAIN handlers : \A j \in DOMAIN handlers[h].records :
          /\ handlers[h].results[j] = Pending
          /\ handlers'[h].results[j].error # Null
          => /\ handlers'[h].pc = "started"
             /\ handlers'[h].results[j].executionArn = 0
             /\ \A k \in DOMAIN handlers[h].records \ {j} :
                  handlers'[h].results[k] = handlers[h].results[k]
             /\ executions' = executions]_vars

\* the handler returned success for two records: the start of the first was
\* rejected, the second started an execution
C34_Witness ==
  \E h \in DOMAIN handlers :
    /\ handlers[h].pc = "success"
    /\ Len(handlers[h].records) = 2
    /\ handlers[h].results[1].error = "ThrottlingException"
    /\ handlers[h].results[1].executionArn = 0
    /\ handlers[h].results[2].error = Null
    /\ handlers[h].results[2].executionArn = 1

\* C35: with STATE_MACHINE_ARN not set every invocation of the handler
\* throws at once: none of its records gets a start call or a result entry,
\* no execution exists, and the invocation does nothing more; the handler
\* throws in no other case.
C35_UnsetArnThrows ==
  /\ [](\A h \in DOMAIN handlers :
          /\ handlers[h].pc = "thrown" <=> stateMachineArn = ""
          /\ handlers[h].pc = "thrown"
               => \A j \in DOMAIN handlers[h].records :
                    handlers[h].results[j] = Pending)
  /\ [](stateMachineArn = "" => executions = <<>>)
  /\ [][\A h \in DOMAIN handlers :
          handlers[h].pc = "thrown" => handlers'[h] = handlers[h]]_vars

\* both deliveries of an event of two records made the handler throw
C35_Witness ==
  /\ stateMachineArn = ""
  /\ Len(handlers) = 2
  /\ \A h \in DOMAIN handlers :
       /\ handlers[h].pc = "thrown"
       /\ Len(handlers[h].records) = 2
  /\ \E n \in DOMAIN notifications : notifications[n].delivered = 2

\* C36: a request the handler is done with has been answered exactly once:
\* with SUCCESS when its S3 call succeeded, after clearing the configuration
\* for a Delete and writing the Lambda notification otherwise, and with
\* FAILED when the S3 call failed; the handler never sends both SUCCESS and
\* FAILED for one request and never ends without a response.
C36_AnsweredExactlyOnce ==
  \A r \in DOMAIN requests :
    LET R == requests[r] IN
    /\ Len(R.sends) <= 1
    /\ R.pc # "thrown"
    /\ R.pc = "returned"
         => /\ Len(R.responses) = 1
            /\ R.responses[1] = IF R.written THEN "SUCCESS" ELSE "FAILED"

\* C37: a step that enters a failure state starts in that state's own stage:
\* TranscriptionFailed is entered from TranscribeAudio, from the poll task or
\* from the decision on a poll that said FAILED, ProcessingFailed from
\* ProcessTranscript, SummarizationFailed from GenerateSummary and
\* FormattingFailed from FormatOutput; so an execution in SummarizationFailed
\* has a transcript recorded and one in FormattingFailed a summary as well.
C37_FailureOrigin ==
  /\ [][\A i \in DOMAIN executions :
          /\ executions'[i].state # executions[i].state
          /\ executions'[i].state \in FailStates
          => LET from == executions[i].state
                 to == executions'[i].state
             IN  /\ to = "TranscriptionFailed" =>
                      \/ from \in {"TranscribeAudio", "CheckTranscriptionStatus"}
                      \/ from = "IsTranscriptionComplete" /\ PollStatus(i) = "FAILED"
                 /\ to = "ProcessingFailed" => from = "ProcessTranscript"
                 /\ to = "SummarizationFailed" => from = "GenerateSummary"
                 /\ to = "FormattingFailed" => from = "FormatOutput"
                 /\ from \in Tasks => executions'[i].lastError.state = from]_vars
  /\ [](\A i \in DOMAIN executions :
          LET e == executions[i] IN
          /\ e.state = "SummarizationFailed" =>
               /\ Recorded(e, "ProcessTranscript")
               /\ ~Recorded(e, "GenerateSummary")
          /\ e.state = "FormattingFailed" =>
               /\ Recorded(e, "ProcessTranscript")
               /\ Recorded(e, "GenerateSummary")
               /\ ~Recorded(e, "FormatOutput"))

\* the summary of a recorded transcript failed, after two polls
C37_Witness ==
  \E i \in DOMAIN executions :
    /\ executions[i].state = "SummarizationFailed"
    /\ executions[i].lastError.state = "GenerateSummary"
    /\ executions[i].lastError.error = "GenerationError"
    /\ Recorded(executions[i], "ProcessTranscript")
    /\ executions[i].polls = 2

====
